---- MODULE Spec2Model ----
(***************************************************************************)
(* Booking ledger of neartools (src/app.py): tools, bookings, and the      *)
(* callers of create_booking / cancel_booking.  Every SQL statement is one *)
(* atomic step (sqlite autocommit, one connection per call); a function    *)
(* that issues a SELECT and later an INSERT/UPDATE is two steps, and other *)
(* callers may run between them.                                           *)
(***************************************************************************)
EXTENDS Integers, Sequences, FiniteSets, TLC

\* ---------------------------------------------------------------- bounds
MaxDay == 2        \* number of calendar days a caller may pick from
MaxBookings == 2   \* rows the bookings table may hold
MaxRecent == 7     \* reservations of one item made inside the trailing 90 days

\* ---------------------------------------------------------------- dates
\* A date object is its day-of-year in 2024 (Jan 1 = 1).  The days the
\* sessions book are Feb 29, Mar 1, ...; availability is also asked for
\* Feb 28, so that a range can lie on either side of a reservation.
Days == 60..(59 + MaxDay)
AllDays == 59..(59 + MaxDay)

\* days of 2024 before the first day of month m (datetime._DAYS_BEFORE_MONTH)
DaysBeforeMonth == <<0, 31, 60, 91, 121, 152, 182, 213, 244, 274, 305, 335, 366>>

MonthOf(n) == CHOOSE m \in 1..12 : DaysBeforeMonth[m] < n /\ n <= DaysBeforeMonth[m + 1]

\* date.isoformat(): the stored TEXT "2024-MM-DD", kept as <<year, month, day>>
isoformat(n) == <<2024, MonthOf(n), n - DaysBeforeMonth[MonthOf(n)]>>

\* date.fromisoformat(): back to a date object
fromisoformat(s) == DaysBeforeMonth[s[2]] + s[3]

\* SQL NULL / Python None in a TEXT column
None == <<>>

\* None where a date object is expected (Optional[date]); no day has this number
NoDate == 0

\* ---------------------------------------------------------------- universe
Users == {1, 2}
Procs == {"s1", "s2"}

\* who is logged in where: the same user in both sessions, or two users
SessionUsers == {[p \in Procs |-> 1], [p \in Procs |-> IF p = "s1" THEN 1 ELSE 2]}

VARIABLES
    tools,      \* tools table: id -> row
    bookings,   \* bookings table: sequence of rows, row id = index (AUTOINCREMENT)
    user,       \* per session: st.session_state["user"]["id"], the logged-in user
    pc,         \* per session: where it stands inside create_booking / cancel_booking
    args,       \* per session: the locals of the call in flight
    last,       \* the (ok, msg) most recently returned, and by which function
    cancelOks,  \* per booking id: how many cancel_booking calls returned (True, ...)
    query,      \* the latest is_available(tool, start, end) call and what it returned
    today,      \* the clock, as a day: date.today() and the date of datetime.now(timezone.utc)
    reviews,    \* reviews table: sequence of rows
    ranked      \* the latest rank_tools / Browse call: its inputs and what it returned

vars == <<tools, bookings, user, pc, args, last, cancelOks, query, today, reviews, ranked>>

NoArgs == [tool_id |-> 0]
NoCall == [op |-> "init", ok |-> FALSE, msg |-> ""]
NoQuery == [tool_id |-> 0, start |-> 0, end |-> 0, result |-> FALSE]
NoRank == [op |-> "init"]

\* ---------------------------------------------------------------- text
\* A str is the sequence of its characters; "" and None are both <<>>.
Upper == <<"A", "B", "C", "D", "E", "F", "G", "H", "I", "J", "K", "L", "M",
           "N", "O", "P", "Q", "R", "S", "T", "U", "V", "W", "X", "Y", "Z">>
Lower == <<"a", "b", "c", "d", "e", "f", "g", "h", "i", "j", "k", "l", "m",
           "n", "o", "p", "q", "r", "s", "t", "u", "v", "w", "x", "y", "z">>
Digits == {"0", "1", "2", "3", "4", "5", "6", "7", "8", "9"}

\* the lower-case letter of each upper-case letter
ToLower == [c \in {Upper[k] : k \in 1..26} |-> Lower[CHOOSE k \in 1..26 : Upper[k] = c]]

\* str.lower(), on ASCII text
lower(text) == [i \in 1..Len(text) |-> IF text[i] \in DOMAIN ToLower THEN ToLower[text[i]] ELSE text[i]]

\* the character class [a-z0-9]
WordChars == Digits \cup {Lower[k] : k \in 1..26}

is_word_char(c) == c \in WordChars

\* re.findall(r"[a-z0-9]+", text): the maximal runs of word characters, each
\* from a word character that follows none to the last one before the next
\* other character
findall(text) ==
    LET n == Len(text)
        starts == {i \in 1..n : is_word_char(text[i]) /\ (i = 1 \/ ~ is_word_char(text[i - 1]))}
        end_of(i) == CHOOSE j \in i..n :
                        /\ j = n \/ ~ is_word_char(text[j + 1])
                        /\ \A k \in i..j : is_word_char(text[k])
    IN  {SubSeq(text, i, end_of(i)) : i \in starts}

\* set(w for w in re.findall(r"[a-z0-9]+", (text or "").lower()) if len(w) > 1)
_tokenize(text) == {w \in findall(lower(text)) : Len(w) > 1}

\* tok in text, for two str: tok occurs in text as a substring
str_in(tok, text) ==
    \E i \in 1..(Len(text) - Len(tok) + 1) : SubSeq(text, i, i + Len(tok) - 1) = tok

\* f"{tool['name']} {(tool['description'] or '')} {(tool['category'] or '')}"
tool_text(tool) == tool.name \o <<" ">> \o tool.description \o <<" ">> \o tool.category

\* the task -> equipment table, as <<key, hints>> pairs
AI_HINTS ==
    {
     <<<<"p", "a", "i", "n", "t">>,
       {<<"l", "a", "d", "d", "e", "r">>,
        <<"p", "a", "i", "n", "t", " ", "s", "p", "r", "a", "y", "e", "r">>,
        <<"r", "o", "l", "l", "e", "r">>,
        <<"d", "r", "o", "p", " ", "c", "l", "o", "t", "h">>,
        <<"t", "a", "r", "p">>,
        <<"b", "r", "u", "s", "h">>}>>,
     <<<<"c", "e", "i", "l", "i", "n", "g">>,
       {<<"l", "a", "d", "d", "e", "r">>,
        <<"r", "o", "l", "l", "e", "r">>,
        <<"p", "a", "i", "n", "t", " ", "s", "p", "r", "a", "y", "e", "r">>}>>,
     <<<<"m", "o", "u", "n", "t", " ", "t", "v">>,
       {<<"h", "a", "m", "m", "e", "r", " ", "d", "r", "i", "l", "l">>,
        <<"d", "r", "i", "l", "l">>,
        <<"s", "t", "u", "d", " ", "f", "i", "n", "d", "e", "r">>,
        <<"l", "e", "v", "e", "l">>,
        <<"d", "r", "i", "v", "e", "r">>,
        <<"s", "c", "r", "e", "w", "d", "r", "i", "v", "e", "r">>}>>,
     <<<<"c", "o", "n", "c", "r", "e", "t", "e">>,
       {<<"h", "a", "m", "m", "e", "r", " ", "d", "r", "i", "l", "l">>,
        <<"m", "a", "s", "o", "n", "r", "y">>,
        <<"i", "m", "p", "a", "c", "t">>}>>,
     <<<<"b", "u", "i", "l", "d", " ", "t", "a", "b", "l", "e">>,
       {<<"s", "a", "w">>,
        <<"c", "i", "r", "c", "u", "l", "a", "r", " ", "s", "a", "w">>,
        <<"j", "i", "g", "s", "a", "w">>,
        <<"d", "r", "i", "l", "l">>,
        <<"s", "a", "n", "d", "e", "r">>,
        <<"c", "l", "a", "m", "p", "s">>}>>,
     <<<<"c", "u", "t", " ", "w", "o", "o", "d">>,
       {<<"s", "a", "w">>,
        <<"c", "i", "r", "c", "u", "l", "a", "r", " ", "s", "a", "w">>,
        <<"j", "i", "g", "s", "a", "w">>}>>,
     <<<<"g", "a", "r", "d", "e", "n">>,
       {<<"h", "e", "d", "g", "e", " ", "t", "r", "i", "m", "m", "e", "r">>,
        <<"l", "a", "d", "d", "e", "r">>}>>,
     <<<<"h", "e", "d", "g", "e">>,
       {<<"h", "e", "d", "g", "e", " ", "t", "r", "i", "m", "m", "e", "r">>,
        <<"l", "a", "d", "d", "e", "r">>}>>,
     <<<<"b", "b", "q">>,
       {<<"g", "r", "i", "l", "l">>,
        <<"b", "a", "r", "b", "e", "q", "u", "e">>,
        <<"b", "a", "r", "b", "e", "c", "u", "e">>}>>,
     <<<<"p", "r", "e", "s", "s", "u", "r", "e", " ", "w", "a", "s", "h">>,
       {<<"p", "r", "e", "s", "s", "u", "r", "e", " ", "w", "a", "s", "h", "e", "r">>,
        <<"p", "o", "w", "e", "r", " ", "w", "a", "s", "h", "e", "r">>,
        <<"h", "o", "s", "e">>}>>
    }

\* expanded = set(tokens); for k, hints in AI_HINTS.items(): if k in tokens: expanded.update(hints)
_expand_with_hints(tokens) ==
    tokens \cup UNION {h[2] : h \in {e \in AI_HINTS : e[1] \in tokens}}

\* ---------------------------------------------------------------- tools
ToolRow(id, from, to) ==
    [id |-> id, owner_id |-> 1, daily_price |-> 20, available_from |-> from, available_to |-> to,
     name |-> <<"D", "r", "i", "l", "l">>, description |-> None, category |-> <<>>]

\* the availability windows a listing may have: each bound absent or set
Windows == {None, isoformat(61)} \X {None, isoformat(60)}

\* ---------------------------------------------------------------- reads
tool_bookings_any_status(tool_id) ==
    LET rows == SelectSeq(bookings, LAMBDA r : r.tool_id = tool_id)
    IN  [i \in 1..Len(rows) |-> <<fromisoformat(rows[i].start_date), fromisoformat(rows[i].end_date)>>]

tool_bookings_all_tools(tool_id) ==
    LET rows == SelectSeq(bookings, LAMBDA r : r.status = "confirmed")
    IN  [i \in 1..Len(rows) |-> <<fromisoformat(rows[i].start_date), fromisoformat(rows[i].end_date)>>]

\* SELECT start_date, end_date FROM bookings WHERE tool_id=? AND status='confirmed'
tool_bookings(tool_id) ==
    LET rows == SelectSeq(bookings, LAMBDA r : r.tool_id = tool_id /\ r.status = "confirmed")
    IN  [i \in 1..Len(rows) |-> <<fromisoformat(rows[i].start_date), fromisoformat(rows[i].end_date)>>]

is_available_touching(tool, start, end) ==
    IF tool.available_from # None /\ start < fromisoformat(tool.available_from) THEN FALSE
    ELSE IF tool.available_to # None /\ end > fromisoformat(tool.available_to) THEN FALSE
    ELSE LET bs == tool_bookings(tool.id)
         IN  \A i \in 1..Len(bs) : (end <= bs[i][1] \/ start >= bs[i][2])

is_available_no_upper(tool, start, end) ==
    IF tool.available_from # None /\ start < fromisoformat(tool.available_from) THEN FALSE
    ELSE LET bs == tool_bookings(tool.id)
         IN  \A i \in 1..Len(bs) : (end < bs[i][1] \/ start > bs[i][2])

is_available_start_only(tool, start, end) ==
    IF tool.available_from # None /\ start < fromisoformat(tool.available_from) THEN FALSE
    ELSE IF tool.available_to # None /\ end > fromisoformat(tool.available_to) THEN FALSE
    ELSE LET bs == tool_bookings(tool.id)
         IN  \A i \in 1..Len(bs) : (start < bs[i][1] \/ start > bs[i][2])

is_available_ignores_bookings(tool, start, end) ==
    IF tool.available_from # None /\ start < fromisoformat(tool.available_from) THEN FALSE
    ELSE IF tool.available_to # None /\ end > fromisoformat(tool.available_to) THEN FALSE
    ELSE TRUE

is_available_no_lower(tool, start, end) ==
    IF tool.available_to # None /\ end > fromisoformat(tool.available_to) THEN FALSE
    ELSE LET bs == tool_bookings(tool.id)
         IN  \A i \in 1..Len(bs) : (end < bs[i][1] \/ start > bs[i][2])

\* lines 824-832: the two bounds of the window, then every Confirmed range
is_available(tool, start, end) ==
    IF tool.available_from # None /\ start < fromisoformat(tool.available_from) THEN FALSE
    ELSE IF tool.available_to # None /\ end > fromisoformat(tool.available_to) THEN FALSE
    ELSE LET bs == tool_bookings(tool.id)
         IN  \A i \in 1..Len(bs) : (end < bs[i][1] \/ start > bs[i][2])

is_available_call_holds(tool_id, start, end) ==
    /\ query' = [tool_id |-> tool_id, start |-> start, end |-> end,
                 result |-> is_available(tools[tool_id], start, end)]
    /\ bookings' = IF is_available(tools[tool_id], start, end)
                   THEN Append(bookings,
                               [tool_id |-> tool_id, borrower_id |-> 1,
                                start_date |-> isoformat(start), end_date |-> isoformat(end),
                                total_cost |-> 0, status |-> "confirmed",
                                created_at |-> isoformat(today)])
                   ELSE bookings
    /\ UNCHANGED <<tools, user, pc, args, last, cancelOks, today, reviews, ranked>>

\* a caller asks is_available and keeps the answer; nothing is written
is_available_call(tool_id, start, end) ==
    /\ query' = [tool_id |-> tool_id, start |-> start, end |-> end,
                 result |-> is_available(tools[tool_id], start, end)]
    /\ UNCHANGED <<tools, bookings, user, pc, args, last, cancelOks, today, reviews, ranked>>

\* ---------------------------------------------------------------- create_booking
\* the locals of create_booking(tool, borrower_id, start, end); tool is the row
\* the caller read from the tools table
CallArgs(tool_id, borrower_id, start, end) ==
    [tool_id |-> tool_id, borrower_id |-> borrower_id, start |-> start, end |-> end,
     tool |-> tools[tool_id]]

Outcome(op, ok, msg) == [op |-> op, ok |-> ok, msg |-> msg]

InvalidDateRange == Outcome("create_booking", FALSE, "End date must be the same or after start date.")
NotAvailable == Outcome("create_booking", FALSE, "Tool is not available for those dates.")
BookingConfirmed == Outcome("create_booking", TRUE, "Booking confirmed")
NotFound == Outcome("cancel_booking", FALSE, "Booking not found.")
NotOwnedByCaller == Outcome("cancel_booking", FALSE, "You can only cancel your own booking.")
NotConfirmed == Outcome("cancel_booking", FALSE, "This booking is not confirmed.")
BookingCanceled == Outcome("cancel_booking", TRUE, "Booking canceled.")

days_of_exclusive(start, end) == end - start

\* days = (end - start).days + 1
days_of(start, end) == (end - start) + 1

rejects_days_negative(days) == days < 0

\* if days <= 0: return False, ...
rejects_days(days) == days <= 0

\* total_cost = float(tool["daily_price"]) * days
total_cost_of(tool, days) == tool.daily_price * days

\* the table can take the rows of the calls about to insert and one more; a
\* call that would go past MaxBookings rows is not started
HasRoom == Len(bookings) + Cardinality({q \in Procs : pc[q] = "cb_insert"}) < MaxBookings

\* lines 835-839: the days check and is_available, up to the point of the INSERT
create_booking_check(p, tool_id, start, end) ==
    LET tool == tools[tool_id]
        days == days_of(start, end)
        a    == CallArgs(tool_id, user[p], start, end)
    IN  /\ pc[p] = "idle"
        /\ IF rejects_days(days)
           THEN /\ last' = InvalidDateRange
                /\ UNCHANGED <<pc, args>>
           ELSE IF ~ is_available(tool, start, end)
           THEN /\ last' = NotAvailable
                /\ UNCHANGED <<pc, args>>
           ELSE /\ HasRoom
                /\ pc' = [pc EXCEPT ![p] = "cb_insert"]
                /\ args' = [args EXCEPT ![p] = a]
                /\ UNCHANGED last
        /\ UNCHANGED <<tools, bookings, user, cancelOks, query, today, reviews, ranked>>

\* the row of INSERT INTO bookings(tool_id, borrower_id, start_date, end_date, total_cost, status, ...)
BookingRow(a, total_cost) ==
    [tool_id |-> a.tool_id, borrower_id |-> a.borrower_id,
     start_date |-> isoformat(a.start), end_date |-> isoformat(a.end),
     total_cost |-> total_cost, status |-> "confirmed", created_at |-> isoformat(today)]

\* lines 840-851: total_cost, the INSERT, and the return
create_booking_insert(p) ==
    /\ pc[p] = "cb_insert"
    /\ LET a == args[p]
           total_cost == total_cost_of(a.tool, days_of(a.start, a.end))
       IN  bookings' = Append(bookings, BookingRow(a, total_cost))
    /\ last' = BookingConfirmed
    /\ pc' = [pc EXCEPT ![p] = "idle"]
    /\ args' = [args EXCEPT ![p] = NoArgs]
    /\ UNCHANGED <<tools, user, cancelOks, query, today, reviews, ranked>>

\* ---------------------------------------------------------------- cancel_booking
CancelArgs(booking_id, user_id) == [tool_id |-> 0, booking_id |-> booking_id, user_id |-> user_id]

cancel_check_status_first(booking_id, user_id) ==
    IF booking_id \notin 1..Len(bookings) THEN NotFound
    ELSE IF bookings[booking_id].status # "confirmed" THEN NotConfirmed
    ELSE IF bookings[booking_id].borrower_id # user_id THEN NotOwnedByCaller
    ELSE BookingCanceled

cancel_check_no_status(booking_id, user_id) ==
    IF booking_id \notin 1..Len(bookings) THEN NotFound
    ELSE IF bookings[booking_id].borrower_id # user_id THEN NotOwnedByCaller
    ELSE BookingCanceled

\* lines 889-895: the row the SELECT returns and the three checks on it; the
\* value is what the call will return if nothing stops it
cancel_check(booking_id, user_id) ==
    IF booking_id \notin 1..Len(bookings) THEN NotFound
    ELSE IF bookings[booking_id].borrower_id # user_id THEN NotOwnedByCaller
    ELSE IF bookings[booking_id].status # "confirmed" THEN NotConfirmed
    ELSE BookingCanceled

\* lines 889-895: the SELECT; a failed check returns at once
cancel_booking_read(p, booking_id) ==
    LET r == cancel_check(booking_id, user[p])
    IN  /\ pc[p] = "idle"
        /\ IF ~ r.ok
           THEN /\ last' = r
                /\ UNCHANGED <<pc, args>>
           ELSE /\ pc' = [pc EXCEPT ![p] = "cn_update"]
                /\ args' = [args EXCEPT ![p] = CancelArgs(booking_id, user[p])]
                /\ UNCHANGED last
        /\ UNCHANGED <<tools, bookings, user, cancelOks, query, today, reviews, ranked>>

cancel_booking_delete(p) ==
    /\ pc[p] = "cn_update"
    /\ LET a == args[p]
       IN  /\ bookings' = [i \in 1..(Len(bookings) - 1) |->
                              IF i < a.booking_id THEN bookings[i] ELSE bookings[i + 1]]
           /\ cancelOks' = [cancelOks EXCEPT ![a.booking_id] = @ + 1]
    /\ last' = BookingCanceled
    /\ pc' = [pc EXCEPT ![p] = "idle"]
    /\ args' = [args EXCEPT ![p] = NoArgs]
    /\ UNCHANGED <<tools, user, query, today, reviews, ranked>>

\* lines 896-898: UPDATE bookings SET status='canceled' WHERE id=?, and the return
cancel_booking_update(p) ==
    /\ pc[p] = "cn_update"
    /\ LET a == args[p]
       IN  /\ bookings' = [bookings EXCEPT ![a.booking_id].status = "canceled"]
           /\ cancelOks' = [cancelOks EXCEPT ![a.booking_id] = @ + 1]
    /\ last' = BookingCanceled
    /\ pc' = [pc EXCEPT ![p] = "idle"]
    /\ args' = [args EXCEPT ![p] = NoArgs]
    /\ UNCHANGED <<tools, user, query, today, reviews, ranked>>

\* ---------------------------------------------------------------- delete_tool
DeleteArgs(tool_id, owner_id) == [tool_id |-> tool_id, owner_id |-> owner_id]

ToolNotFound == Outcome("delete_tool", FALSE, "Tool not found.")
DeleteNotOwnedByCaller == Outcome("delete_tool", FALSE, "You can only delete tools you own.")
HasFutureConfirmedBookings ==
    Outcome("delete_tool", FALSE, "Cannot delete: this tool has upcoming confirmed bookings.")
ToolDeleted == Outcome("delete_tool", TRUE, "Tool deleted.")

\* SQLite's >= on two TEXT values holding "YYYY-MM-DD": byte by byte, which
\* for zero-padded fields is field by field
text_geq(a, b) ==
    \/ a[1] > b[1]
    \/ a[1] = b[1] /\ a[2] > b[2]
    \/ a[1] = b[1] /\ a[2] = b[2] /\ a[3] >= b[3]

has_future_confirmed_bookings_strict(tool_id) ==
    LET c == Cardinality({i \in 1..Len(bookings) :
                            /\ bookings[i].tool_id = tool_id
                            /\ bookings[i].status = "confirmed"
                            /\ bookings[i].end_date # isoformat(today)
                            /\ text_geq(bookings[i].end_date, isoformat(today))})
    IN  c > 0

\* SELECT COUNT(*) FROM bookings WHERE tool_id=? AND status='confirmed' AND end_date >= today
has_future_confirmed_bookings(tool_id) ==
    LET c == Cardinality({i \in 1..Len(bookings) :
                            /\ bookings[i].tool_id = tool_id
                            /\ bookings[i].status = "confirmed"
                            /\ text_geq(bookings[i].end_date, isoformat(today))})
    IN  c > 0

delete_tool_read_future_first(p, tool_id) ==
    /\ pc[p] = "idle"
    /\ IF tool_id \notin DOMAIN tools
       THEN /\ last' = ToolNotFound
            /\ UNCHANGED <<pc, args>>
       ELSE IF has_future_confirmed_bookings(tool_id)
       THEN /\ last' = HasFutureConfirmedBookings
            /\ UNCHANGED <<pc, args>>
       ELSE IF tools[tool_id].owner_id # user[p]
       THEN /\ last' = DeleteNotOwnedByCaller
            /\ UNCHANGED <<pc, args>>
       ELSE /\ pc' = [pc EXCEPT ![p] = "dt_count"]
            /\ args' = [args EXCEPT ![p] = DeleteArgs(tool_id, user[p])]
            /\ UNCHANGED last
    /\ UNCHANGED <<tools, bookings, user, cancelOks, query, today, reviews, ranked>>

\* lines 921-925: SELECT owner_id FROM tools WHERE id=?, and the two checks on it
delete_tool_read(p, tool_id) ==
    /\ pc[p] = "idle"
    /\ IF tool_id \notin DOMAIN tools
       THEN /\ last' = ToolNotFound
            /\ UNCHANGED <<pc, args>>
       ELSE IF tools[tool_id].owner_id # user[p]
       THEN /\ last' = DeleteNotOwnedByCaller
            /\ UNCHANGED <<pc, args>>
       ELSE /\ pc' = [pc EXCEPT ![p] = "dt_count"]
            /\ args' = [args EXCEPT ![p] = DeleteArgs(tool_id, user[p])]
            /\ UNCHANGED last
    /\ UNCHANGED <<tools, bookings, user, cancelOks, query, today, reviews, ranked>>

\* lines 926-927: has_future_confirmed_bookings, a SELECT on a connection of its own
delete_tool_count(p) ==
    /\ pc[p] = "dt_count"
    /\ IF has_future_confirmed_bookings(args[p].tool_id)
       THEN /\ last' = HasFutureConfirmedBookings
            /\ pc' = [pc EXCEPT ![p] = "idle"]
            /\ args' = [args EXCEPT ![p] = NoArgs]
       ELSE /\ pc' = [pc EXCEPT ![p] = "dt_delete"]
            /\ UNCHANGED <<args, last>>
    /\ UNCHANGED <<tools, bookings, user, cancelOks, query, today, reviews, ranked>>

\* lines 928-930: DELETE FROM tools WHERE id=?, and the return.  get_conn()
\* (lines 704-707) does not issue PRAGMA foreign_keys = ON on its connection,
\* so the ON DELETE CASCADE of bookings.tool_id is not applied: the rows of
\* the bookings table stay.
delete_tool_delete(p) ==
    /\ pc[p] = "dt_delete"
    /\ tools' = [id \in DOMAIN tools \ {args[p].tool_id} |-> tools[id]]
    /\ last' = ToolDeleted
    /\ pc' = [pc EXCEPT ![p] = "idle"]
    /\ args' = [args EXCEPT ![p] = NoArgs]
    /\ UNCHANGED <<bookings, user, cancelOks, query, today, reviews, ranked>>

\* ---------------------------------------------------------------- ranking
\* A score is a float in the code; here it is kept exactly, in hundredths
\* (3.0 is 300).  The ratings drawn below give means that are whole hundredths.
ReviewRow(tool_id, reviewer_id, rating) ==
    [tool_id |-> tool_id, reviewer_id |-> reviewer_id, rating |-> rating]

\* SELECT r.rating, ... FROM reviews r JOIN users u ON u.id=r.reviewer_id WHERE r.tool_id=?
get_tool_reviews(tool_id) ==
    SelectSeq(reviews, LAMBDA r : r.tool_id = tool_id /\ r.reviewer_id \in Users)

RECURSIVE rating_sum(_)
rating_sum(df) == IF df = <<>> THEN 0 ELSE Head(df).rating + rating_sum(Tail(df))

\* (float(df["rating"].mean()), int(len(df))), or (0.0, 0) without reviews
_avg_rating_and_count(tool_id) ==
    LET df == get_tool_reviews(tool_id)
    IN  IF df = <<>> THEN <<0, 0>>
        ELSE <<(100 * rating_sum(df)) \div Len(df), Len(df)>>

_recent_bookings_count_confirmed(tool_id, days) ==
    LET cutoff == isoformat(today - days)
    IN  Cardinality({i \in 1..Len(bookings) :
                        /\ bookings[i].tool_id = tool_id
                        /\ bookings[i].status = "confirmed"
                        /\ text_geq(bookings[i].created_at, cutoff)})

\* SELECT COUNT(*) FROM bookings WHERE tool_id=? AND created_at >= cutoff, the
\* cutoff being `days` days before now; timestamps are kept to the day
_recent_bookings_count(tool_id, days) ==
    LET cutoff == isoformat(today - days)
    IN  Cardinality({i \in 1..Len(bookings) :
                        /\ bookings[i].tool_id = tool_id
                        /\ text_geq(bookings[i].created_at, cutoff)})

min(a, b) == IF a <= b THEN a ELSE b

\* lines 1020-1028: what job_text adds to the score, and the reason it adds.
\* The reason lists list(overlap)[:3]: up to three of the tokens, which ones
\* and in which order being the set's iteration order; it is kept as their number.
text_score(tool, job_text) ==
    IF job_text # <<>>
    THEN LET job_tokens == _expand_with_hints(_tokenize(job_text))
             hay == _tokenize(tool_text(tool))
             overlap == job_tokens \cap hay
         IN  IF overlap # {}
             THEN <<min(500, 100 + 80 * Cardinality(overlap)),
                    <<[reason |-> "matches", listed |-> min(3, Cardinality(overlap))]>> >>
             ELSE <<-50, <<>> >>
    ELSE <<0, <<>> >>

rating_score_unconditional(tool) ==
    LET r == _avg_rating_and_count(tool.id)
        avg == r[1]
        cnt == r[2]
    IN  <<((avg - 300) * 8) \div 10,
          IF cnt > 0 THEN <<[reason |-> "rating", avg |-> avg \div 10, cnt |-> cnt]>>
                     ELSE <<[reason |-> "no reviews yet"]>> >>

\* lines 1029-1034: the rating term; the reason shows the mean to one decimal
rating_score(tool) ==
    LET r == _avg_rating_and_count(tool.id)
        avg == r[1]
        cnt == r[2]
    IN  IF cnt > 0
        THEN <<((avg - 300) * 8) \div 10,
               <<[reason |-> "rating", avg |-> avg \div 10, cnt |-> cnt]>> >>
        ELSE <<0, <<[reason |-> "no reviews yet"]>> >>

\* lines 1035-1038: the demand term
demand_score(tool) ==
    LET recent == _recent_bookings_count(tool.id, 90)
    IN  IF recent > 0
        THEN <<min(300, 50 + 40 * recent), <<[reason |-> "recent booking(s)", recent |-> recent]>> >>
        ELSE <<0, <<>> >>

score_tool_no_return(tool, job_text, start, end) ==
    LET dated == start # NoDate /\ end # NoDate
        d == IF dated
             THEN IF is_available(tool, start, end)
                  THEN <<300, <<[reason |-> "available for your dates"]>> >>
                  ELSE <<-10000, <<[reason |-> "not available for selected dates"]>> >>
             ELSE <<0, <<>> >>
        t == text_score(tool, job_text)
        r == rating_score(tool)
        b == demand_score(tool)
    IN  <<d[1] + t[1] + r[1] + b[1], d[2] \o t[2] \o r[2] \o b[2]>>

score_tool_no_bonus(tool, job_text, start, end) ==
    LET dated == start # NoDate /\ end # NoDate
        t == text_score(tool, job_text)
        r == rating_score(tool)
        b == demand_score(tool)
    IN  IF dated /\ ~ is_available(tool, start, end)
        THEN <<-10000, <<[reason |-> "not available for selected dates"]>> >>
        ELSE IF dated
        THEN <<0 + t[1] + r[1] + b[1],
               <<[reason |-> "available for your dates"]>> \o t[2] \o r[2] \o b[2]>>
        ELSE <<0 + t[1] + r[1] + b[1], t[2] \o r[2] \o b[2]>>

score_tool_any_date(tool, job_text, start, end) ==
    LET dated == start # NoDate \/ end # NoDate
        t == text_score(tool, job_text)
        r == rating_score(tool)
        b == demand_score(tool)
    IN  IF dated /\ ~ is_available(tool, start, end)
        THEN <<-10000, <<[reason |-> "not available for selected dates"]>> >>
        ELSE IF dated
        THEN <<300 + t[1] + r[1] + b[1],
               <<[reason |-> "available for your dates"]>> \o t[2] \o r[2] \o b[2]>>
        ELSE <<0 + t[1] + r[1] + b[1], t[2] \o r[2] \o b[2]>>

\* score_tool: (score, reasons)
score_tool(tool, job_text, start, end) ==
    LET dated == start # NoDate /\ end # NoDate
        t == text_score(tool, job_text)
        r == rating_score(tool)
        b == demand_score(tool)
    IN  IF dated /\ ~ is_available(tool, start, end)
        THEN <<-10000, <<[reason |-> "not available for selected dates"]>> >>
        ELSE IF dated
        THEN <<300 + t[1] + r[1] + b[1],
               <<[reason |-> "available for your dates"]>> \o t[2] \o r[2] \o b[2]>>
        ELSE <<0 + t[1] + r[1] + b[1], t[2] \o r[2] \o b[2]>>

\* ranked.sort(key=lambda x: x[1], reverse=True): a stable sort, so entries
\* with equal scores stay in the order they had; x[1] is the second component
RECURSIVE sort_by_score_desc(_)
sort_by_score_desc(entries) ==
    IF Len(entries) <= 1 THEN entries
    ELSE LET x == Head(entries)
             rest == sort_by_score_desc(Tail(entries))
             k == Cardinality({i \in 1..Len(rest) : rest[i][2] > x[2]})
         IN  SubSeq(rest, 1, k) \o <<x>> \o SubSeq(rest, k + 1, Len(rest))

RECURSIVE reversed(_)
reversed(entries) ==
    IF entries = <<>> THEN <<>> ELSE Append(reversed(Tail(entries)), Head(entries))

RECURSIVE sort_by_score_asc(_)
sort_by_score_asc(entries) ==
    IF Len(entries) <= 1 THEN entries
    ELSE LET x == Head(entries)
             rest == sort_by_score_asc(Tail(entries))
             k == Cardinality({i \in 1..Len(rest) : rest[i][2] < x[2]})
         IN  SubSeq(rest, 1, k) \o <<x>> \o SubSeq(rest, k + 1, Len(rest))

rank_tools_sorted_then_reversed(tool_list, job_text, start, end) ==
    reversed(sort_by_score_asc(
        [i \in 1..Len(tool_list) |->
            LET r == score_tool(tool_list[i], job_text, start, end)
            IN  <<tool_list[i], r[1], r[2]>>]))

rank_tools_drop_negative(tool_list, job_text, start, end) ==
    SelectSeq(sort_by_score_desc(
                 [i \in 1..Len(tool_list) |->
                     LET r == score_tool(tool_list[i], job_text, start, end)
                     IN  <<tool_list[i], r[1], r[2]>>]),
              LAMBDA x : x[2] >= 0)

\* rank_tools: the (tool, score, reasons) of every tool given, sorted
rank_tools(tool_list, job_text, start, end) ==
    sort_by_score_desc(
        [i \in 1..Len(tool_list) |->
            LET r == score_tool(tool_list[i], job_text, start, end)
            IN  <<tool_list[i], r[1], r[2]>>])

\* a call and what it returned; the rows it was given are kept by their ids
RankCall(op, tool_list, job_text, start, end, result) ==
    [op |-> op, tools |-> [i \in 1..Len(tool_list) |-> tool_list[i].id], job_text |-> job_text,
     start |-> start, end |-> end, result |-> result]

\* a caller applies rank_tools to a list of rows of the tools table
rank_tools_call(ids, job_text, start, end) ==
    /\ LET tool_list == [i \in 1..Len(ids) |-> tools[ids[i]]]
       IN  ranked' = RankCall("rank_tools", tool_list, job_text, start, end,
                              rank_tools(tool_list, job_text, start, end))
    /\ UNCHANGED <<tools, bookings, user, pc, args, last, cancelOks, query, today, reviews>>

\* list_tools("", "", ""): every row of tools (each has its owner in users),
\* ORDER BY created_at DESC: the latest listed, which has the largest id, first
RECURSIVE rows_by_id_desc(_)
rows_by_id_desc(ids) ==
    IF ids = {} THEN <<>>
    ELSE LET m == CHOOSE i \in ids : \A j \in ids : j <= i
         IN  <<tools[m]>> \o rows_by_id_desc(ids \ {m})

list_tools == rows_by_id_desc(DOMAIN tools)

\* str.strip() leaves a non-empty str
strip_nonempty(text) == \E i \in 1..Len(text) : text[i] # " "

\* lines 1276-1277: any(tok in f"{name} {description} {category}".lower() for tok in _tokenize(job_text))
browse_filter(tool, job_text) ==
    \E tok \in _tokenize(job_text) : str_in(tok, lower(tool_text(tool)))

\* lines 1274-1292 of the Browse tab, category and location left empty: the
\* listing, the text filter, and the ranking of what is left
browse(job_text, d1, d2) ==
    /\ LET listed == list_tools
           shown == IF strip_nonempty(job_text)
                    THEN SelectSeq(listed, LAMBDA t : browse_filter(t, job_text))
                    ELSE listed
       IN  ranked' = IF shown = <<>>
                     THEN RankCall("browse", shown, job_text, d1, d2, <<>>)
                     ELSE RankCall("browse", shown, job_text, d1, d2,
                                   rank_tools(shown, job_text, d1, d2))
    /\ UNCHANGED <<tools, bookings, user, pc, args, last, cancelOks, query, today, reviews>>

\* ---------------------------------------------------------------- specifications
Init ==
    /\ \E w \in Windows : tools = [id \in {1} |-> ToolRow(id, w[1], w[2])]
    /\ bookings = <<>>
    /\ user \in SessionUsers
    /\ pc = [p \in Procs |-> "idle"]
    /\ args = [p \in Procs |-> NoArgs]
    /\ last = NoCall
    /\ cancelOks = [b \in 1..MaxBookings |-> 0]
    /\ query = NoQuery
    /\ today = 60
    /\ reviews = <<>>
    /\ ranked = NoRank

Step(p) ==
    \/ \E t \in DOMAIN tools, s \in Days, e \in Days : create_booking_check(p, t, s, e)
    \/ create_booking_insert(p)
    \/ \E b \in 1..(MaxBookings + 1) : cancel_booking_read(p, b)
    \/ cancel_booking_update(p)

\* any number of sessions call the functions concurrently
Next == \E p \in Procs : Step(p)

Spec == Init /\ [][Next]_vars

\* the same calls, executed one at a time: a call starts only when no other is in flight
Alone(p) == \A q \in Procs \ {p} : pc[q] = "idle"

NextSeq == \E p \in Procs : Alone(p) /\ Step(p)

SpecSeq == Init /\ [][NextSeq]_vars

\* two listings without a window, booked and canceled by concurrent sessions
InitTwo ==
    /\ tools = [id \in {1, 2} |-> ToolRow(id, None, None)]
    /\ bookings = <<>>
    /\ user \in SessionUsers
    /\ pc = [p \in Procs |-> "idle"]
    /\ args = [p \in Procs |-> NoArgs]
    /\ last = NoCall
    /\ cancelOks = [b \in 1..MaxBookings |-> 0]
    /\ query = NoQuery
    /\ today = 60
    /\ reviews = <<>>
    /\ ranked = NoRank

\* the ranges asked of each listing: any for the first, one day for the second
TwoRanges(t) == IF t = 1 THEN Days \X Days ELSE {<<60, 60>>}

StepTwo(p) ==
    \/ \E t \in DOMAIN tools : \E r \in TwoRanges(t) : create_booking_check(p, t, r[1], r[2])
    \/ create_booking_insert(p)
    \/ \E b \in 1..(MaxBookings + 1) : cancel_booking_read(p, b)
    \/ cancel_booking_update(p)

NextTwo == \E p \in Procs : StepTwo(p)

SpecTwo == InitTwo /\ [][NextTwo]_vars

\* the ledger together with delete_tool: an item without a window, on a day
\* on which a reservation of Feb 29 is either current or past
InitDel ==
    /\ tools = [id \in {1} |-> ToolRow(id, None, None)]
    /\ bookings = <<>>
    /\ user \in SessionUsers
    /\ pc = [p \in Procs |-> "idle"]
    /\ args = [p \in Procs |-> NoArgs]
    /\ last = NoCall
    /\ cancelOks = [b \in 1..MaxBookings |-> 0]
    /\ query = NoQuery
    /\ today \in {60, 61}
    /\ reviews = <<>>
    /\ ranked = NoRank

StepDel(p) ==
    \/ Step(p)
    \/ \E t \in {1} : delete_tool_read(p, t)
    \/ delete_tool_count(p)
    \/ delete_tool_delete(p)

NextDel == \E p \in Procs : StepDel(p)

SpecDel == InitDel /\ [][NextDel]_vars

\* is_available as a function of the tables: any window, any rows (overlapping
\* confirmed rows included, which concurrent callers can produce), any range
DateRanges == {r \in AllDays \X AllDays : r[1] <= r[2]}

StoredRows ==
    {[tool_id |-> 1, borrower_id |-> 1, start_date |-> isoformat(r[1]), end_date |-> isoformat(r[2]),
      total_cost |-> 20 * ((r[2] - r[1]) + 1), status |-> st, created_at |-> isoformat(59)] :
        r \in DateRanges, st \in {"confirmed", "canceled"}}

RECURSIVE Tables(_)
Tables(n) == IF n = 0 THEN {<<>>}
             ELSE Tables(n - 1) \cup {Append(t, r) : t \in Tables(n - 1), r \in StoredRows}

InitAvail ==
    /\ \E w \in Windows : tools = [id \in {1} |-> ToolRow(id, w[1], w[2])]
    /\ bookings \in Tables(MaxBookings)
    /\ user = [p \in Procs |-> 1]
    /\ pc = [p \in Procs |-> "idle"]
    /\ args = [p \in Procs |-> NoArgs]
    /\ last = NoCall
    /\ cancelOks = [b \in 1..MaxBookings |-> 0]
    /\ query = NoQuery
    /\ today = 60
    /\ reviews = <<>>
    /\ ranked = NoRank

NextAvail == \E t \in DOMAIN tools, s \in AllDays, e \in AllDays : is_available_call(t, s, e)

SpecAvail == InitAvail /\ [][NextAvail]_vars

\* rank_tools and the Browse filter as functions of the tables and the inputs.
\* Job texts: none, a blank, words with a one-letter word, a plural, a hint
\* key, and two hint keys with a capital and punctuation
JobTexts ==
    {<<>>,
     <<" ">>,
     <<"a", " ", "s", "a", "w">>,
     <<"d", "r", "i", "l", "l", "s">>,
     <<"p", "a", "i", "n", "t">>,
     <<"P", "a", "i", "n", "t", " ", "h", "e", "d", "g", "e", "!">>}

\* name, description and category of the first listing
ToolTexts ==
    {<<<<"D", "r", "i", "l", "l">>, None, <<>> >>,
     <<<<"C", "h", "a", "i", "n", "s", "a", "w">>, <<>>, <<"P", "o", "w", "e", "r", " ", "t", "o", "o", "l", "s">>>>,
     <<<<"L", "a", "d", "d", "e", "r">>, <<"P", "a", "i", "n", "t", ",", " ", "h", "e", "d", "g", "e", ":", " ", "r", "o", "l", "l", "e", "r", " ", "t", "a", "r", "p", " ", "b", "r", "u", "s", "h">>, <<>> >>}

RankToolRow(id, text) ==
    [ToolRow(id, None, None) EXCEPT !.name = text[1], !.description = text[2], !.category = text[3]]

RankBookingRow(tool_id, status, created) ==
    [tool_id |-> tool_id, borrower_id |-> 2, start_date |-> isoformat(60), end_date |-> isoformat(60),
     total_cost |-> 20, status |-> status, created_at |-> isoformat(created)]

\* the reservations of one item: none; one made on the first day of the
\* 90-day window; one canceled; one made the day before the window; many
BookingProfiles(tool_id) ==
    {<<>>,
     <<RankBookingRow(tool_id, "confirmed", 60)>>,
     <<RankBookingRow(tool_id, "canceled", 61)>>,
     <<RankBookingRow(tool_id, "confirmed", 59)>>,
     [i \in 1..MaxRecent |-> RankBookingRow(tool_id, "canceled", 61)]}

ReviewTables ==
    {<<>>,
     <<ReviewRow(1, 2, 5)>>,
     <<ReviewRow(1, 2, 1), ReviewRow(2, 1, 5), ReviewRow(2, 2, 4)>>}

InitRank ==
    /\ \E x \in ToolTexts :
          tools = [id \in {1, 2} |->
                      IF id = 1 THEN RankToolRow(1, x)
                      ELSE RankToolRow(2, <<<<"S", "t", "e", "p", " ", "L", "a", "d", "d", "e", "r">>, None, <<"l", "a", "d", "d", "e", "r">>>>)]
    /\ \E b1 \in BookingProfiles(1), b2 \in {<<>>, <<RankBookingRow(2, "confirmed", 61)>>} :
          bookings = b1 \o b2
    /\ reviews \in ReviewTables
    /\ today = 150
    /\ user = [p \in Procs |-> 1]
    /\ pc = [p \in Procs |-> "idle"]
    /\ args = [p \in Procs |-> NoArgs]
    /\ last = NoCall
    /\ cancelOks = [b \in 1..MaxBookings |-> 0]
    /\ query = NoQuery
    /\ ranked = NoRank

\* start and end as the caller gives them: both, one, or none
RankDates == {<<NoDate, NoDate>>, <<60, 60>>, <<61, 61>>, <<60, NoDate>>}

NextRank ==
    \/ \E ids \in {<<1, 2>>, <<2, 1>>}, q \in JobTexts, d \in RankDates :
          rank_tools_call(ids, q, d[1], d[2])
    \/ \E q \in JobTexts, d \in RankDates : browse(q, d[1], d[2])

SpecRank == InitRank /\ [][NextRank]_vars

\* ---------------------------------------------------------------- the reading calls together
\* the texts and the dates of the ranking calls made next to is_available
ReadTexts == {<<>>, <<"p", "a", "i", "n", "t">>}

ReadDates == {<<NoDate, NoDate>>, <<60, 60>>}

\* is_available, rank_tools and the Browse view called in any order, any
\* number of times, on the tables of InitRank
NextRead ==
    \/ \E t \in DOMAIN tools, s \in {60, 61}, e \in {60, 61} : is_available_call(t, s, e)
    \/ \E q \in ReadTexts, d \in ReadDates : rank_tools_call(<<1, 2>>, q, d[1], d[2])
    \/ \E q \in ReadTexts, d \in ReadDates : browse(q, d[1], d[2])

SpecRead == InitRank /\ [][NextRead]_vars

\* ---------------------------------------------------------------- properties
\* Dates as the claims speak of them: calendar days, compared as the stored
\* "YYYY-MM-DD" texts compare.
IsoLeq(a, b) ==
    \/ a[1] < b[1]
    \/ a[1] = b[1] /\ a[2] < b[2]
    \/ a[1] = b[1] /\ a[2] = b[2] /\ a[3] <= b[3]

\* the "YYYY-MM-DD" text of each calendar day
TextOf == [d \in AllDays |-> isoformat(d)]

\* row r occupies calendar day d
Covers(r, d) == IsoLeq(r.start_date, TextOf[d]) /\ IsoLeq(TextOf[d], r.end_date)

\* row r and the range [start, end] have a calendar day in common
SharesDay(r, start, end) == \E d \in AllDays : start <= d /\ d <= end /\ Covers(r, d)

Confirmed(tool_id) ==
    {i \in 1..Len(bookings) : bookings[i].tool_id = tool_id /\ bookings[i].status = "confirmed"}

\* [start, end] respects the bounds of the tool's window that are set
InsideWindow(tool, start, end) ==
    /\ tool.available_from = None \/ IsoLeq(tool.available_from, TextOf[start])
    /\ tool.available_to = None \/ IsoLeq(TextOf[end], tool.available_to)

\* no Confirmed reservation of the tool has a day in common with [start, end]
Free(tool_id, start, end) == \A i \in Confirmed(tool_id) : ~ SharesDay(bookings[i], start, end)

\* C1: under concurrent create_booking / cancel_booking calls the Confirmed
\* reservations of an item never share a calendar day.  (Stated as the claim
\* states it; the code does not keep it.)
C1_NoOverlapConcurrent ==
    \A i \in 1..Len(bookings), j \in 1..Len(bookings) :
        (/\ i # j
         /\ bookings[i].tool_id = bookings[j].tool_id
         /\ bookings[i].status = "confirmed"
         /\ bookings[j].status = "confirmed")
        => ~ \E d \in AllDays : Covers(bookings[i], d) /\ Covers(bookings[j], d)

\* C2: for start <= end inside the window, is_available answers True exactly
\* when no Confirmed reservation of the item has a day in common with the range.
C2_AvailableIffDisjoint ==
    (/\ query # NoQuery
     /\ query.start <= query.end
     /\ InsideWindow(tools[query.tool_id], query.start, query.end))
    => (query.result <=> Free(query.tool_id, query.start, query.end))

\* C2 witness: a range that starts the day after a Confirmed reservation ends
\* was found available
C2_Witness ==
    /\ query # NoQuery
    /\ query.result
    /\ \E i \in Confirmed(query.tool_id) : fromisoformat(bookings[i].end_date) + 1 = query.start

\* C3: is_available answers False when a set bound of the window is crossed,
\* whatever the reservations; a bound that is absent rejects nothing.
C3_WindowBounds ==
    query # NoQuery =>
        LET tool == tools[query.tool_id]
            early == tool.available_from # None /\ ~ IsoLeq(tool.available_from, TextOf[query.start])
            late  == tool.available_to # None /\ ~ IsoLeq(TextOf[query.end], tool.available_to)
        IN  /\ (early \/ late) => ~ query.result
            /\ (~ early /\ ~ late /\ Confirmed(query.tool_id) = {}) => query.result

\* C3 witness: a range free of reservations was refused because it ends after available_to
C3_Witness ==
    /\ query # NoQuery
    /\ ~ query.result
    /\ query.start <= query.end
    /\ Free(query.tool_id, query.start, query.end)
    /\ tools[query.tool_id].available_from = None
    /\ tools[query.tool_id].available_to # None
    /\ query.end > fromisoformat(tools[query.tool_id].available_to)

\* the row a successful create_booking(t, borrower, start, end) leaves behind, cost aside
IsConfirmedRowOf(r, t, borrower, start, end) ==
    /\ r.tool_id = t
    /\ r.borrower_id = borrower
    /\ r.start_date = TextOf[start]
    /\ r.end_date = TextOf[end]
    /\ r.status = "confirmed"

\* session p goes from the INSERT to its return, and the table gains exactly the row of its call
InsertsAndSucceeds(p) ==
    /\ last' = BookingConfirmed
    /\ Len(bookings') = Len(bookings) + 1
    /\ SubSeq(bookings', 1, Len(bookings)) = bookings
    /\ IsConfirmedRowOf(bookings'[Len(bookings')], args[p].tool_id, args[p].borrower_id,
                        args[p].start, args[p].end)

\* C4: a range whose only reservation was canceled can be booked again by
\* another borrower: the call passes its checks and its INSERT returns success,
\* as long as the range is inside the window and free of Confirmed reservations.
C4_FreedSlotReuse ==
    [][/\ \A p \in Procs, t \in DOMAIN tools, s \in Days, e \in Days :
             (/\ s <= e
              /\ \E i \in 1..Len(bookings) :
                    /\ bookings[i].tool_id = t
                    /\ bookings[i].status = "canceled"
                    /\ bookings[i].start_date = TextOf[s]
                    /\ bookings[i].end_date = TextOf[e]
                    /\ bookings[i].borrower_id # user[p]
              /\ InsideWindow(tools[t], s, e)
              /\ Free(t, s, e)
              /\ create_booking_check(p, t, s, e))
             => pc'[p] = "cb_insert" /\ args'[p] = CallArgs(t, user[p], s, e)
       /\ \A p \in Procs : (pc[p] = "cb_insert" /\ pc'[p] = "idle") => InsertsAndSucceeds(p)
      ]_vars

\* C4 witness: a Canceled reservation and, after it, a Confirmed one for the
\* same range of the same item by another borrower
C4_Witness ==
    /\ last = BookingConfirmed
    /\ \E i \in 1..Len(bookings), j \in 1..Len(bookings) :
          /\ i < j
          /\ bookings[i].status = "canceled"
          /\ bookings[j].status = "confirmed"
          /\ bookings[i].tool_id = bookings[j].tool_id
          /\ bookings[i].start_date = bookings[j].start_date
          /\ bookings[i].end_date = bookings[j].end_date
          /\ bookings[i].borrower_id # bookings[j].borrower_id

\* C5 as stated: every cancel_booking call on a Canceled reservation fails with
\* NotConfirmed and changes nothing, and no reservation is canceled
\* successfully twice.
C5_CanceledAlwaysNotConfirmed ==
    [][/\ \A p \in Procs, b \in 1..MaxBookings :
             (/\ cancel_booking_read(p, b)
              /\ b \in 1..Len(bookings)
              /\ bookings[b].status = "canceled")
             => last' = NotConfirmed /\ bookings' = bookings
       /\ \A b \in 1..MaxBookings : cancelOks'[b] <= 1
      ]_vars

\* C5 amended: a cancel_booking call on a Canceled reservation fails with
\* NotConfirmed when the caller is its borrower and with NotOwnedByCaller when
\* not, changes nothing either way, and with calls made one at a time no
\* reservation is canceled successfully twice.
C5_CanceledRejected ==
    [][/\ \A p \in Procs, b \in 1..MaxBookings :
             (/\ cancel_booking_read(p, b)
              /\ b \in 1..Len(bookings)
              /\ bookings[b].status = "canceled")
             => /\ last' = IF bookings[b].borrower_id = user[p] THEN NotConfirmed
                                                                 ELSE NotOwnedByCaller
                /\ bookings' = bookings
                /\ pc' = pc
       /\ \A b \in 1..MaxBookings : cancelOks'[b] <= 1
      ]_vars

\* C5 witness: a reservation canceled once, and a further cancel of it refused
C5_Witness ==
    /\ last = NotConfirmed
    /\ \E b \in 1..Len(bookings) : bookings[b].status = "canceled" /\ cancelOks[b] = 1

\* C6: cancel_booking answers NotFound for an unknown id, NotOwnedByCaller for
\* another user's reservation whatever its status, NotConfirmed for the
\* caller's own non-Confirmed reservation; a failing call changes no row, and
\* a row turns Canceled only in the UPDATE of a call by its borrower.
C6_CancelErrors ==
    [][/\ \A p \in Procs, b \in 1..(MaxBookings + 1) :
             cancel_booking_read(p, b)
             => /\ b \notin 1..Len(bookings) => last' = NotFound
                /\ (b \in 1..Len(bookings) /\ bookings[b].borrower_id # user[p])
                      => last' = NotOwnedByCaller
                /\ (/\ b \in 1..Len(bookings)
                    /\ bookings[b].borrower_id = user[p]
                    /\ bookings[b].status # "confirmed") => last' = NotConfirmed
                /\ (/\ b \in 1..Len(bookings)
                    /\ bookings[b].borrower_id = user[p]
                    /\ bookings[b].status = "confirmed") => pc'[p] = "cn_update"
                /\ bookings' = bookings
       /\ \A i \in 1..Len(bookings) :
             (bookings[i].status = "confirmed" /\ bookings'[i].status = "canceled")
             => /\ last' = BookingCanceled
                /\ \E p \in Procs :
                      /\ user[p] = bookings[i].borrower_id
                      /\ pc[p] = "cn_update"
                      /\ args[p].booking_id = i
                      /\ pc'[p] = "idle"
      ]_vars

\* C6 witness: NotOwnedByCaller was answered while every reservation is
\* Canceled, so the ownership check came before the status check
C6_Witness ==
    /\ last = NotOwnedByCaller
    /\ Len(bookings) >= 1
    /\ \A i \in 1..Len(bookings) : bookings[i].status = "canceled"

\* C7: of the cancel_booking calls on one reservation, interleaved or not, at
\* most one returns success.  (Stated as the claim states it; the code does
\* not keep it.)
C7_CancelSucceedsOnce == \A b \in 1..MaxBookings : cancelOks[b] <= 1

\* C8: every reservation costs the item's daily price times the number of
\* calendar days it occupies, first and last day included.
C8_TotalCost ==
    \A i \in 1..Len(bookings) :
        bookings[i].total_cost =
            tools[bookings[i].tool_id].daily_price
                * Cardinality({d \in AllDays : Covers(bookings[i], d)})

\* C8 witness: a reservation of Feb 29 to Mar 1, two days at 20 a day, costs 40
C8_Witness ==
    \E i \in 1..Len(bookings) :
        /\ bookings[i].start_date = <<2024, 2, 29>>
        /\ bookings[i].end_date = <<2024, 3, 1>>
        /\ tools[bookings[i].tool_id].daily_price = 20
        /\ bookings[i].total_cost = 40

\* C9: create_booking with end < start returns InvalidDateRange, whether or
\* not the range is available, and writes nothing; with end = start the call
\* is not refused as invalid.
C9_InvalidDateRange ==
    [][\A p \in Procs, t \in DOMAIN tools, s \in Days, e \in Days :
          (e <= s /\ create_booking_check(p, t, s, e))
          => /\ e < s => (last' = InvalidDateRange /\ bookings' = bookings /\ pc' = pc)
             /\ e = s => (pc'[p] = "cb_insert" \/ last' = NotAvailable)
      ]_vars

\* C9 witness: InvalidDateRange was answered while a Confirmed reservation
\* occupies every day, so the refused range was unavailable as well
C9_Witness ==
    /\ last = InvalidDateRange
    /\ \E i \in 1..Len(bookings) :
          bookings[i].status = "confirmed" /\ \A d \in Days : Covers(bookings[i], d)

\* C10: for start <= end, create_booking goes on to its INSERT exactly when
\* the range is inside the window and free of Confirmed reservations in the
\* state its check reads, and otherwise returns NotAvailable and leaves the
\* table as it was; a row is added only by the INSERT of a call that passed
\* that check, as a Confirmed row of its valid, in-window arguments, and that
\* call returns success.
C10_CreateOutcome ==
    [][/\ \A p \in Procs, t \in DOMAIN tools, s \in Days, e \in Days :
             (s <= e /\ create_booking_check(p, t, s, e))
             => IF InsideWindow(tools[t], s, e) /\ Free(t, s, e)
                THEN pc'[p] = "cb_insert" /\ args'[p] = CallArgs(t, user[p], s, e)
                ELSE last' = NotAvailable /\ pc' = pc /\ bookings' = bookings
       /\ \A p \in Procs : (pc[p] = "cb_insert" /\ pc'[p] = "idle") => InsertsAndSucceeds(p)
       /\ Len(bookings') # Len(bookings)
             => \E p \in Procs :
                   /\ pc[p] = "cb_insert"
                   /\ pc'[p] = "idle"
                   /\ args[p].start <= args[p].end
                   /\ InsideWindow(tools[args[p].tool_id], args[p].start, args[p].end)
      ]_vars

\* C10 witness: NotAvailable was answered for an item without a window, so a
\* Confirmed reservation was in the way, and the table still holds one row
C10_Witness ==
    /\ last = NotAvailable
    /\ tools[1].available_from = None
    /\ tools[1].available_to = None
    /\ Len(bookings) = 1
    /\ bookings[1].status = "confirmed"

\* C11: a create_booking call that lost the race (by the time of its INSERT a
\* Confirmed reservation of the item shares a day with its range) returns
\* NotAvailable and adds no row, so of two concurrent calls for overlapping
\* ranges at most one returns success.  (Stated as the claim states it; the
\* code has no retry and no check at the INSERT.)
C11_RaceLoserNotAvailable ==
    [][\A p \in Procs :
          (/\ pc[p] = "cb_insert"
           /\ pc'[p] = "idle"
           /\ ~ Free(args[p].tool_id, args[p].start, args[p].end))
          => last' = NotAvailable /\ bookings' = bookings
      ]_vars

\* C18: a reservation is created Confirmed, its only change is Confirmed to
\* Canceled, a Canceled one stays Canceled, and create_booking / cancel_booking
\* remove no row: the ids 1..Len(bookings) only grow.
C18_Lifecycle ==
    [][/\ Len(bookings') >= Len(bookings)
       /\ \A i \in 1..Len(bookings) :
             /\ [bookings'[i] EXCEPT !.status = "x"] = [bookings[i] EXCEPT !.status = "x"]
             /\ bookings'[i].status # bookings[i].status
                   => bookings[i].status = "confirmed" /\ bookings'[i].status = "canceled"
       /\ \A i \in (Len(bookings) + 1)..Len(bookings') : bookings'[i].status = "confirmed"
      ]_vars

\* C18 witness: a reservation was canceled and a later one created; both rows
\* are still in the table
C18_Witness ==
    /\ Len(bookings) = 2
    /\ bookings[1].status = "canceled"
    /\ cancelOks[1] >= 1
    /\ bookings[2].status = "confirmed"

\* some Confirmed reservation of the item ends today or later, by calendar date
FutureConfirmed(tool_id) ==
    \E i \in Confirmed(tool_id) : fromisoformat(bookings[i].end_date) >= today

\* C12: a delete_tool call by the owner, at its future-bookings check, fails
\* with HasFutureConfirmedBookings and leaves the item in place whenever a
\* Confirmed reservation of the item has end >= today; when every reservation
\* of the item is Canceled or ended before today it goes on to its DELETE,
\* which removes the item and returns success.
C12_DeleteGuard ==
    [][\A p \in Procs :
          /\ (pc[p] = "idle" /\ pc'[p] = "dt_count")
                => tools[args'[p].tool_id].owner_id = user[p]
          /\ (pc[p] = "dt_count" /\ pc'[p] # "dt_count")
                => IF FutureConfirmed(args[p].tool_id)
                   THEN last' = HasFutureConfirmedBookings /\ tools' = tools /\ pc'[p] = "idle"
                   ELSE pc'[p] = "dt_delete" /\ tools' = tools
          /\ (pc[p] = "dt_delete" /\ pc'[p] # "dt_delete")
                => last' = ToolDeleted /\ args[p].tool_id \notin DOMAIN tools'
      ]_vars

\* C12 witness: the delete was refused for a Confirmed reservation that ends today
C12_Witness ==
    /\ last = HasFutureConfirmedBookings
    /\ 1 \in DOMAIN tools
    /\ \E i \in Confirmed(1) : bookings[i].end_date = TextOf[today]

\* C13: delete_tool by a user who is not the owner fails with NotOwnedByCaller
\* whether or not the item has future Confirmed reservations; an unknown item
\* gives not found; and a delete_tool call that fails, at any of its three
\* checks, leaves the items and the reservations as they were.
C13_DeleteErrors ==
    [][/\ \A p \in Procs, t \in {1} :
             delete_tool_read(p, t)
             => /\ t \notin DOMAIN tools => last' = ToolNotFound
                /\ (t \in DOMAIN tools /\ tools[t].owner_id # user[p])
                      => last' = DeleteNotOwnedByCaller /\ pc' = pc
                /\ (t \in DOMAIN tools /\ tools[t].owner_id = user[p]) => pc'[p] = "dt_count"
                /\ tools' = tools /\ bookings' = bookings
       /\ (last' # last /\ last'.op = "delete_tool" /\ ~ last'.ok)
             => tools' = tools /\ bookings' = bookings
       /\ \A p \in Procs : (pc[p] = "dt_count" /\ pc'[p] # "dt_count")
             => tools' = tools /\ bookings' = bookings
      ]_vars

\* C13 witness: NotOwnedByCaller was answered for an item that has a Confirmed
\* reservation ending today or later, so the ownership check came first
C13_Witness ==
    /\ last = DeleteNotOwnedByCaller
    /\ 1 \in DOMAIN tools
    /\ FutureConfirmed(1)

\* C14: whatever the interleaving of delete_tool with create_booking, no item
\* is gone while a Confirmed reservation of it ends today or later.  (Stated
\* as the claim states it; the code does not keep it.)
C14_NoDeleteUnderBooking ==
    \A t \in {1} : t \notin DOMAIN tools => ~ FutureConfirmed(t)

\* the latest call ranked with both dates given
RankedWithDates == ranked # NoRank /\ ranked.start # NoDate /\ ranked.end # NoDate

\* the item is available for the dates of the latest call: inside its window
\* and sharing no day with a Confirmed reservation
AvailableFor(tool) ==
    /\ InsideWindow(tool, ranked.start, ranked.end)
    /\ Free(tool.id, ranked.start, ranked.end)

\* C15: with both dates given, every item unavailable for them gets exactly
\* the sentinel -100 with the single reason "not available for selected
\* dates", and stands after every available item, whatever its text, ratings
\* and recent reservations.
C15_HardExclusion ==
    RankedWithDates =>
        \A i \in 1..Len(ranked.result) :
            ~ AvailableFor(ranked.result[i][1])
            => /\ ranked.result[i][2] = -10000
               /\ ranked.result[i][3] = <<[reason |-> "not available for selected dates"]>>
               /\ \A j \in 1..Len(ranked.result) : AvailableFor(ranked.result[j][1]) => j < i

\* C15 witness: an unavailable item given first, with a five-star review and
\* recent reservations, stands last with -100, behind an available item that
\* the query text penalised
C15_Witness ==
    /\ RankedWithDates
    /\ ranked.op = "rank_tools"
    /\ Len(ranked.result) = 2
    /\ ranked.tools[1] = ranked.result[2][1].id
    /\ ~ AvailableFor(ranked.result[2][1])
    /\ ranked.result[2][2] = -10000
    /\ \E k \in 1..Len(reviews) : reviews[k].tool_id = ranked.result[2][1].id /\ reviews[k].rating = 5
    /\ AvailableFor(ranked.result[1][1])
    /\ ranked.result[1][2] = 250

\* where the item of an entry stood in the list the call was given
InputPosition(entry) == CHOOSE k \in 1..Len(ranked.tools) : ranked.tools[k] = entry[1].id

\* C17: the result is in non-increasing score order, and entries with equal
\* scores are in the order in which their items were given.
C17_SortedStable ==
    ranked # NoRank =>
        \A i \in 1..Len(ranked.result), j \in 1..Len(ranked.result) :
            i < j => /\ ranked.result[i][2] >= ranked.result[j][2]
                     /\ ranked.result[i][2] = ranked.result[j][2]
                           => InputPosition(ranked.result[i]) < InputPosition(ranked.result[j])

\* C17 witness: two items with the same score, from a query that matched
\* neither, returned in the order given, which is not the order of their ids
C17_Witness ==
    /\ ranked # NoRank
    /\ ranked.op = "rank_tools"
    /\ ranked.tools = <<2, 1>>
    /\ ranked.job_text # <<>>
    /\ Len(ranked.result) = 2
    /\ ranked.result[1][1].id = 2
    /\ ranked.result[1][2] = ranked.result[2][2]
    /\ ranked.result[1][2] # -10000

\* The Token Matcher as the claims describe it.  Tokenize and HintExpand are
\* what _tokenize and _expand_with_hints compute; Expand adds to each token
\* its plural or singular form and the members of its synonym group.
Blank(text) == \A i \in 1..Len(text) : text[i] = " "

EndsWith(w, suffix) ==
    Len(w) >= Len(suffix) /\ SubSeq(w, Len(w) - Len(suffix) + 1, Len(w)) = suffix

PluralVariant(w) ==
    IF EndsWith(w, <<"e", "s">>) THEN SubSeq(w, 1, Len(w) - 2)
    ELSE IF EndsWith(w, <<"s">>) /\ Len(w) - 1 > 3 THEN SubSeq(w, 1, Len(w) - 1)
    ELSE IF ~ EndsWith(w, <<"s">>) THEN w \o <<"s">>
    ELSE w

SynonymGroups ==
    {{<<"b", "b", "q">>,
      <<"b", "a", "r", "b", "e", "c", "u", "e">>,
      <<"b", "a", "r", "b", "e", "q", "u", "e">>,
      <<"g", "r", "i", "l", "l">>}}

Expand(tokens) ==
    tokens \cup {PluralVariant(w) : w \in tokens}
           \cup UNION {g \in SynonymGroups : g \cap tokens # {}}

Matches(tool, queryText) ==
    \/ Blank(queryText)
    \/ Expand(_tokenize(queryText)) \cap _tokenize(tool_text(tool)) # {}

\* C19: the Browse text filter keeps an item exactly when the query text is
\* blank or Expand(Tokenize(queryText)) and the item's tokens share a whole
\* token.  (Stated as the claim states it; the code tests each query token as
\* a substring of the item text and has no Expand.)
C19_MatchesWholeToken ==
    (ranked # NoRank /\ ranked.op = "browse")
    => \A id \in DOMAIN tools :
          (\E k \in 1..Len(ranked.tools) : ranked.tools[k] = id)
          <=> Matches(tools[id], ranked.job_text)

\* the text contribution the claim gives an item for a query text
ClaimedTextScore(tool, queryText) ==
    IF Blank(queryText) THEN 0
    ELSE LET overlap == _expand_with_hints(Expand(_tokenize(queryText)))
                            \cap _tokenize(tool_text(tool))
         IN  IF overlap # {} THEN min(500, 100 + 80 * Cardinality(overlap)) ELSE -50

\* C20: for an item not excluded by the dates, what the query text adds to
\* the score (the score less the score the same call gives without a query
\* text) is min(5.0, 1.0 + 0.8 x |overlap|) for a non-empty overlap of
\* HintExpand(Expand(Tokenize(queryText))) with the item's tokens, -0.5 for an
\* empty one, and 0 for a blank query text.  (Stated as the claim states it;
\* the code has no Expand and scores a blank, non-empty text as a mismatch.)
C20_TextContribution ==
    ranked # NoRank =>
        \A i \in 1..Len(ranked.result) :
            LET tool == ranked.result[i][1]
            IN  (RankedWithDates => AvailableFor(tool))
                => ranked.result[i][2] - score_tool(tool, <<>>, ranked.start, ranked.end)[1]
                      = ClaimedTextScore(tool, ranked.job_text)

\* C21: whatever the text overlap and the availability, the result of
\* rank_tools holds every item it was given exactly once: as many entries as
\* items given, each item given in one entry, each row as it was given.
C21_RankIsPermutation ==
    ranked # NoRank =>
        /\ Len(ranked.result) = Len(ranked.tools)
        /\ \A k \in 1..Len(ranked.tools) :
              Cardinality({i \in 1..Len(ranked.result) : ranked.result[i][1].id = ranked.tools[k]}) = 1
        /\ \A i \in 1..Len(ranked.result) : ranked.result[i][1] = tools[ranked.result[i][1].id]

\* C21 witness: of two items given, one is unavailable for the dates and the
\* other matches no token of the query; both are in the result
C21_Witness ==
    /\ RankedWithDates
    /\ ranked.op = "rank_tools"
    /\ ranked.job_text # <<>>
    /\ Len(ranked.result) = 2
    /\ ranked.result[1][1].id # ranked.result[2][1].id
    /\ ranked.result[2][2] = -10000
    /\ \A e \in {ranked.result[1][3][r] : r \in 1..Len(ranked.result[1][3])} : e.reason # "matches"

\* the reviews of an item, and their ratings added up
ReviewsOf(tool_id) == {k \in 1..Len(reviews) : reviews[k].tool_id = tool_id}

RatingTotal(tool_id) ==
    1 * Cardinality({k \in ReviewsOf(tool_id) : reviews[k].rating = 1})
      + 2 * Cardinality({k \in ReviewsOf(tool_id) : reviews[k].rating = 2})
      + 3 * Cardinality({k \in ReviewsOf(tool_id) : reviews[k].rating = 3})
      + 4 * Cardinality({k \in ReviewsOf(tool_id) : reviews[k].rating = 4})
      + 5 * Cardinality({k \in ReviewsOf(tool_id) : reviews[k].rating = 5})

\* the reservations of an item, of any status, made at most 90 days before today
RecentOf(tool_id) ==
    {i \in 1..Len(bookings) :
        bookings[i].tool_id = tool_id /\ fromisoformat(bookings[i].created_at) >= today - 90}

\* the entry's item was not excluded by the dates of the call
Scored(entry) == RankedWithDates => AvailableFor(entry[1])

DatePart == IF RankedWithDates THEN 300 ELSE 0

\* C22: for an item with reviews the score holds (mean rating - 3.0) x 0.8 on
\* top of the date, text and demand terms (count x term = 0.8 x (total - 3 x
\* count), in hundredths); for an item without reviews _avg_rating_and_count
\* is (0, 0), nothing is added, and the reason says there are no reviews.
C22_RatingContribution ==
    ranked # NoRank =>
        \A i \in 1..Len(ranked.result) :
            LET e == ranked.result[i]
                cnt == Cardinality(ReviewsOf(e[1].id))
                term == e[2] - (DatePart + text_score(e[1], ranked.job_text)[1] + demand_score(e[1])[1])
            IN  Scored(e) =>
                   IF cnt > 0
                   THEN cnt * term = 80 * (RatingTotal(e[1].id) - 3 * cnt)
                   ELSE /\ term = 0
                        /\ _avg_rating_and_count(e[1].id) = <<0, 0>>
                        /\ \E r \in 1..Len(e[3]) : e[3][r] = [reason |-> "no reviews yet"]

\* C22 witness: one result with an item rated 1 (term -1.6), an item with a
\* mean of 4.5 from two reviews, and, in another call, an item without reviews
C22_Witness ==
    /\ ranked # NoRank
    /\ ~ RankedWithDates
    /\ ranked.job_text = <<>>
    /\ Len(ranked.result) = 2
    /\ \E i \in 1..2 :
          /\ Cardinality(ReviewsOf(ranked.result[i][1].id)) = 2
          /\ RatingTotal(ranked.result[i][1].id) = 9
          /\ ranked.result[i][2] - demand_score(ranked.result[i][1])[1] = 120
    /\ \E i \in 1..2 :
          /\ Cardinality(ReviewsOf(ranked.result[i][1].id)) = 1
          /\ RatingTotal(ranked.result[i][1].id) = 1
          /\ ranked.result[i][2] - demand_score(ranked.result[i][1])[1] = -160

\* C23: the score holds min(3.0, 0.5 + 0.4 x n) on top of the date, text and
\* rating terms when n > 0 and nothing when n = 0, n being the number of the
\* item's reservations of any status made inside the trailing 90 days; the
\* status of a reservation does not enter n.
C23_DemandContribution ==
    ranked # NoRank =>
        \A i \in 1..Len(ranked.result) :
            LET e == ranked.result[i]
                n == Cardinality(RecentOf(e[1].id))
                term == e[2] - (DatePart + text_score(e[1], ranked.job_text)[1] + rating_score(e[1])[1])
            IN  Scored(e) => term = IF n > 0 THEN min(300, 50 + 40 * n) ELSE 0

\* C23 witness: an item whose recent reservations are all Canceled and many
\* enough for the cap gets 3.0, next to an item whose only reservation was
\* made the day before the window opened and gets nothing
C23_Witness ==
    /\ ranked # NoRank
    /\ ~ RankedWithDates
    /\ ranked.job_text = <<>>
    /\ reviews = <<>>
    /\ Len(ranked.result) = 2
    /\ ranked.result[1][2] = 300
    /\ Cardinality(RecentOf(ranked.result[1][1].id)) >= 7
    /\ \A i \in RecentOf(ranked.result[1][1].id) : bookings[i].status = "canceled"
    /\ ranked.result[2][2] = 0

C30_NoDatesNoAvailabilityCheck ==
    (ranked # NoRank /\ ~ RankedWithDates) =>
        \A i \in 1..Len(ranked.result) :
            LET e == ranked.result[i]
            IN  /\ e[2] # -10000
                /\ e[2] = text_score(e[1], ranked.job_text)[1] + rating_score(e[1])[1]
                             + demand_score(e[1])[1]
                /\ \A r \in 1..Len(e[3]) :
                      e[3][r].reason \notin {"not available for selected dates",
                                             "available for your dates"}

\* C30 witness: called with a start and no end, an item with a Confirmed
\* reservation on that very day is scored without a date term, as is the
\* item next to it that is free that day
C30_Witness ==
    /\ ranked # NoRank
    /\ ranked.start = 60
    /\ ranked.end = NoDate
    /\ Len(ranked.result) = 2
    /\ \E i \in 1..2 :
          /\ ~ is_available(ranked.result[i][1], 60, 60)
          /\ ranked.result[i][2] > -10000
    /\ \E i \in 1..2 : is_available(ranked.result[i][1], 60, 60)

\* a word that _tokenize can return: some text has it as a token exactly
\* when the word is its own only token
IsToken(w) == _tokenize(w) = {w}

\* C24: every key of AI_HINTS is a token some query text tokenizes to, and
\* every word _expand_with_hints adds to the tokens of the query of a call
\* is itself a single token, one that the tokens of an item text can hold.
C24_HintsAreTokens ==
    ranked # NoRank =>
        /\ \A h \in AI_HINTS : IsToken(h[1])
        /\ \A w \in _expand_with_hints(_tokenize(ranked.job_text)) : IsToken(w)

\* no day is covered by two Confirmed reservations of one item
AtMostOnePerDay ==
    \A t \in {1}, d \in AllDays :
        Cardinality({i \in Confirmed(t) : Covers(bookings[i], d)}) <= 1

\* C26: when the calls run one at a time, the INSERT of a create_booking
\* finds its range free of the Confirmed reservations of the item, and after
\* every step of create_booking and cancel_booking no day is covered by two
\* Confirmed reservations of the item.
C26_SequentialNoOverlap ==
    [][/\ \A p \in Procs :
             create_booking_insert(p)
             => /\ Free(args[p].tool_id, args[p].start, args[p].end)
                /\ Len(bookings') = Len(bookings) + 1
                /\ bookings'[Len(bookings')].status = "confirmed"
       /\ AtMostOnePerDay'
      ]_vars

\* C26 witness: two Confirmed reservations of the item on adjacent days, made
\* by calls that ran one after the other
C26_Witness ==
    /\ \A p \in Procs : pc[p] = "idle"
    /\ \E i \in Confirmed(1), j \in Confirmed(1) :
          /\ i < j
          /\ fromisoformat(bookings[i].start_date) = fromisoformat(bookings[j].end_date) + 1

\* C28: every row of bookings, of any status, has start_date <= end_date and
\* lies inside the bounds of the window of its item that are set.
C28_RowsInsideWindow ==
    \A i \in 1..Len(bookings) :
        LET r == bookings[i]
            tool == tools[r.tool_id]
        IN  /\ IsoLeq(r.start_date, r.end_date)
            /\ tool.available_from # None => IsoLeq(tool.available_from, r.start_date)
            /\ tool.available_to # None => IsoLeq(r.end_date, tool.available_to)

\* C28 witness: a reservation that starts or ends on the very day of a set
\* bound, in a table of two rows, after a create_booking that was refused
C28_Witness ==
    /\ \E i \in 1..Len(bookings) :
          \/ /\ tools[bookings[i].tool_id].available_to # None
             /\ bookings[i].end_date = tools[bookings[i].tool_id].available_to
          \/ /\ tools[bookings[i].tool_id].available_from # None
             /\ bookings[i].start_date = tools[bookings[i].tool_id].available_from
    /\ Len(bookings) = 2
    /\ last.op = "create_booking"
    /\ ~ last.ok

\* C25: a call of is_available, of rank_tools or of the Browse view leaves
\* the tools, the bookings (rows, dates, statuses, costs) and the reviews as
\* they were, a ranking call returns the rows it was given, and the answer of
\* an is_available call is the answer the same call gives in the state it
\* leaves, and still the answer it gives now after any later reading call.
C25_ReadOnly ==
    [][/\ tools' = tools /\ bookings' = bookings /\ reviews' = reviews
       /\ \A t \in DOMAIN tools, s \in {60, 61}, e \in {60, 61} :
             /\ is_available_call(t, s, e)
                => (is_available(tools[t], s, e))' = is_available(tools[t], s, e)
             /\ (query' # NoQuery /\ query'.tool_id = t /\ query'.start = s /\ query'.end = e)
                => query'.result = (is_available(tools[t], s, e))'
       /\ (ranked' # ranked)
             => \A i \in 1..Len(ranked'.result) :
                   ranked'.result[i][1] = tools[ranked'.result[i][1].id]
      ]_vars

\* C25 witness: after an is_available call that answered False because of a
\* Confirmed reservation and a ranking call with dates and a text, the tables
\* hold that reservation, a Canceled one and reviews
C25_Witness ==
    /\ query # NoQuery
    /\ ~ query.result
    /\ RankedWithDates
    /\ ranked.job_text # <<>>
    /\ Confirmed(query.tool_id) # {}
    /\ \E i \in 1..Len(bookings) : bookings[i].status = "canceled"
    /\ reviews # <<>>

\* the step leaves every reservation of item B as it was and adds none, and
\* is_available answers for B what it answered before
LeavesAlone(B) ==
    /\ Len(bookings') >= Len(bookings)
    /\ \A i \in 1..Len(bookings) : bookings[i].tool_id = B => bookings'[i] = bookings[i]
    /\ \A i \in 1..Len(bookings') : bookings'[i].tool_id = B => i <= Len(bookings) /\ bookings[i].tool_id = B
    /\ \A s \in Days, e \in Days :
          (is_available(tools[B], s, e))' = is_available(tools[B], s, e)

\* C27: the INSERT of a create_booking on item A and the UPDATE of a
\* cancel_booking of a reservation of item A leave the reservations of every
\* other item B and the answers of is_available for B unchanged; the INSERT
\* always reports success; and while a create_booking on A is between its
\* check and its INSERT, a create_booking on another item B whose range is
\* free for B passes its own check.
C27_PerItemIndependence ==
    [][\A p \in Procs :
          /\ create_booking_insert(p)
             => /\ last' = BookingConfirmed
                /\ bookings'[Len(bookings')].tool_id = args[p].tool_id
                /\ \A B \in DOMAIN tools \ {args[p].tool_id} : LeavesAlone(B)
          /\ cancel_booking_update(p)
             => \A B \in DOMAIN tools \ {bookings[args[p].booking_id].tool_id} : LeavesAlone(B)
          /\ \A q \in Procs \ {p}, t \in DOMAIN tools :
                \A r \in TwoRanges(t) :
                   (/\ pc[p] = "cb_insert"
                    /\ args[p].tool_id # t
                    /\ r[1] <= r[2]
                    /\ Free(t, r[1], r[2])
                    /\ create_booking_check(q, t, r[1], r[2]))
                   => pc'[q] = "cb_insert"
      ]_vars

\* C27 witness: a create_booking on one item is between its check and its
\* INSERT while the other session's reservation of the other item, for a
\* range that holds the same start day, has just been inserted
C27_Witness ==
    \E p \in Procs, q \in Procs :
        /\ pc[p] = "cb_insert"
        /\ pc[q] = "idle"
        /\ last = BookingConfirmed
        /\ Len(bookings) = 1
        /\ bookings[1].tool_id # args[p].tool_id
        /\ bookings[1].borrower_id = user[q]
        /\ user[p] # user[q]
        /\ Covers(bookings[1], args[p].start)

====
